---- MODULE Spec2Model ----
(***************************************************************************)
(* The environment registry of jumanji/registration.py.                    *)
(*                                                                         *)
(* Python strings are modelled as sequences of one-character strings, so   *)
(* that the identifier grammar, the integer conversions and the split of   *)
(* an entry point are computed character by character.  The dictionary     *)
(* _REGISTRY is an insertion-ordered sequence of (key, value) entries.     *)
(***************************************************************************)
EXTENDS Integers, Sequences, FiniteSets, TLC

\* Registrations are attempted only while the registry holds fewer entries.
MaxReg == 3
\* Largest version number written in the identifiers the callers pass.
MaxVersion == 2
\* Longest string handed to the parser on its own.
MaxLen == 5
\* Longest name handed to get_env_id on its own.
MaxNameLen == 3

(***************************************************************************)
(* Characters and integer conversions                                      *)
(***************************************************************************)
\* the ASCII digits, in the order of their values: what an f-string writes
DigitChars == <<"0", "1", "2", "3", "4", "5", "6", "7", "8", "9">>

\* The pattern is a str pattern, so \w and \d are the Unicode classes.  A
\* character of Latin-1 is written as itself; a character beyond Latin-1 is
\* written by its code point in hexadecimal, four digits at least: "U+0663" is
\* the one character ARABIC-INDIC DIGIT THREE, "U+1D7CE" the one character
\* MATHEMATICAL BOLD DIGIT ZERO.
HexDigits ==
    <<"0", "1", "2", "3", "4", "5", "6", "7", "8", "9", "A", "B", "C", "D", "E", "F">>

HexVal == [h \in {HexDigits[i] : i \in 1..16} |-> (CHOOSE i \in 1..16 : HexDigits[i] = h) - 1]

\* the number the hexadecimal digits from position k of c write after the
\* number n, or -1 when one of them is no hexadecimal digit
RECURSIVE HexToInt(_, _, _)
HexToInt(c, k, n) ==
    IF k > Len(c) THEN n
    ELSE LET h == SubSeq(c, k, k)
         IN  IF h \in DOMAIN HexVal THEN HexToInt(c, k + 1, n * 16 + HexVal[h]) ELSE -1

\* ord(c) of a character beyond Latin-1: c is U+ and the four to six
\* hexadecimal digits of its code point, without needless leading zeros;
\* -1 when c is not written so
ord(c) ==
    IF Len(c) \in 6..8 /\ SubSeq(c, 1, 2) = "U+" /\ (Len(c) > 6 => SubSeq(c, 3, 3) # "0")
    THEN LET cp == HexToInt(c, 3, 0)
         IN  IF cp \in 256..1114111 THEN cp ELSE -1
    ELSE -1

\* the characters of Latin-1 that \w matches: the alphanumeric ones
\* (str.isalnum) and the underscore
Latin1WordText ==
    "0123456789ABCDEFGHIJKLMNOPQRSTUVWXYZ_abcdefgh"
    \o "ijklmnopqrstuvwxyzª²³µ¹º¼½¾ÀÁÂÃÄÅÆÇÈÉÊËÌÍÎÏÐÑ"
    \o "ÒÓÔÕÖØÙÚÛÜÝÞßàáâãäåæçèéêëìíîïðñòóôõöøùúûüýþÿ"

Latin1WordChars == {SubSeq(Latin1WordText, i, i) : i \in 1..Len(Latin1WordText)}

\* A table of code points is written as ranges first-last, each bound in six
\* hexadecimal digits, every line but the last holding as many ranges as the
\* first.  RangesOn counts the ranges of a line, Ranges reads a table.
RangesOn(line) == (Len(line) + 1) \div 14

Ranges(text) ==
    [k \in 1..(RangesOn(text[1]) * (Len(text) - 1) + RangesOn(text[Len(text)])) |->
        LET line == text[((k - 1) \div RangesOn(text[1])) + 1]
            j == ((k - 1) % RangesOn(text[1])) + 1
        IN  <<HexToInt(SubSeq(line, 14 * j - 13, 14 * j - 8), 1, 0),
              HexToInt(SubSeq(line, 14 * j - 6, 14 * j - 1), 1, 0)>>]

\* the characters beyond Latin-1 that \w matches (str.isalnum), from the
\* Unicode 14.0 tables of the interpreter
WordRangeText ==
    <<"000100-0002C1 0002C6-0002D1 0002E0-0002E4 0002EC-0002EC 0002EE-0002EE 000370-000374",
      "000376-000377 00037A-00037D 00037F-00037F 000386-000386 000388-00038A 00038C-00038C",
      "00038E-0003A1 0003A3-0003F5 0003F7-000481 00048A-00052F 000531-000556 000559-000559",
      "000560-000588 0005D0-0005EA 0005EF-0005F2 000620-00064A 000660-000669 00066E-00066F",
      "000671-0006D3 0006D5-0006D5 0006E5-0006E6 0006EE-0006FC 0006FF-0006FF 000710-000710",
      "000712-00072F 00074D-0007A5 0007B1-0007B1 0007C0-0007EA 0007F4-0007F5 0007FA-0007FA",
      "000800-000815 00081A-00081A 000824-000824 000828-000828 000840-000858 000860-00086A",
      "000870-000887 000889-00088E 0008A0-0008C9 000904-000939 00093D-00093D 000950-000950",
      "000958-000961 000966-00096F 000971-000980 000985-00098C 00098F-000990 000993-0009A8",
      "0009AA-0009B0 0009B2-0009B2 0009B6-0009B9 0009BD-0009BD 0009CE-0009CE 0009DC-0009DD",
      "0009DF-0009E1 0009E6-0009F1 0009F4-0009F9 0009FC-0009FC 000A05-000A0A 000A0F-000A10",
      "000A13-000A28 000A2A-000A30 000A32-000A33 000A35-000A36 000A38-000A39 000A59-000A5C",
      "000A5E-000A5E 000A66-000A6F 000A72-000A74 000A85-000A8D 000A8F-000A91 000A93-000AA8",
      "000AAA-000AB0 000AB2-000AB3 000AB5-000AB9 000ABD-000ABD 000AD0-000AD0 000AE0-000AE1",
      "000AE6-000AEF 000AF9-000AF9 000B05-000B0C 000B0F-000B10 000B13-000B28 000B2A-000B30",
      "000B32-000B33 000B35-000B39 000B3D-000B3D 000B5C-000B5D 000B5F-000B61 000B66-000B6F",
      "000B71-000B77 000B83-000B83 000B85-000B8A 000B8E-000B90 000B92-000B95 000B99-000B9A",
      "000B9C-000B9C 000B9E-000B9F 000BA3-000BA4 000BA8-000BAA 000BAE-000BB9 000BD0-000BD0",
      "000BE6-000BF2 000C05-000C0C 000C0E-000C10 000C12-000C28 000C2A-000C39 000C3D-000C3D",
      "000C58-000C5A 000C5D-000C5D 000C60-000C61 000C66-000C6F 000C78-000C7E 000C80-000C80",
      "000C85-000C8C 000C8E-000C90 000C92-000CA8 000CAA-000CB3 000CB5-000CB9 000CBD-000CBD",
      "000CDD-000CDE 000CE0-000CE1 000CE6-000CEF 000CF1-000CF2 000D04-000D0C 000D0E-000D10",
      "000D12-000D3A 000D3D-000D3D 000D4E-000D4E 000D54-000D56 000D58-000D61 000D66-000D78",
      "000D7A-000D7F 000D85-000D96 000D9A-000DB1 000DB3-000DBB 000DBD-000DBD 000DC0-000DC6",
      "000DE6-000DEF 000E01-000E30 000E32-000E33 000E40-000E46 000E50-000E59 000E81-000E82",
      "000E84-000E84 000E86-000E8A 000E8C-000EA3 000EA5-000EA5 000EA7-000EB0 000EB2-000EB3",
      "000EBD-000EBD 000EC0-000EC4 000EC6-000EC6 000ED0-000ED9 000EDC-000EDF 000F00-000F00",
      "000F20-000F33 000F40-000F47 000F49-000F6C 000F88-000F8C 001000-00102A 00103F-001049",
      "001050-001055 00105A-00105D 001061-001061 001065-001066 00106E-001070 001075-001081",
      "00108E-00108E 001090-001099 0010A0-0010C5 0010C7-0010C7 0010CD-0010CD 0010D0-0010FA",
      "0010FC-001248 00124A-00124D 001250-001256 001258-001258 00125A-00125D 001260-001288",
      "00128A-00128D 001290-0012B0 0012B2-0012B5 0012B8-0012BE 0012C0-0012C0 0012C2-0012C5",
      "0012C8-0012D6 0012D8-001310 001312-001315 001318-00135A 001369-00137C 001380-00138F",
      "0013A0-0013F5 0013F8-0013FD 001401-00166C 00166F-00167F 001681-00169A 0016A0-0016EA",
      "0016EE-0016F8 001700-001711 00171F-001731 001740-001751 001760-00176C 00176E-001770",
      "001780-0017B3 0017D7-0017D7 0017DC-0017DC 0017E0-0017E9 0017F0-0017F9 001810-001819",
      "001820-001878 001880-001884 001887-0018A8 0018AA-0018AA 0018B0-0018F5 001900-00191E",
      "001946-00196D 001970-001974 001980-0019AB 0019B0-0019C9 0019D0-0019DA 001A00-001A16",
      "001A20-001A54 001A80-001A89 001A90-001A99 001AA7-001AA7 001B05-001B33 001B45-001B4C",
      "001B50-001B59 001B83-001BA0 001BAE-001BE5 001C00-001C23 001C40-001C49 001C4D-001C7D",
      "001C80-001C88 001C90-001CBA 001CBD-001CBF 001CE9-001CEC 001CEE-001CF3 001CF5-001CF6",
      "001CFA-001CFA 001D00-001DBF 001E00-001F15 001F18-001F1D 001F20-001F45 001F48-001F4D",
      "001F50-001F57 001F59-001F59 001F5B-001F5B 001F5D-001F5D 001F5F-001F7D 001F80-001FB4",
      "001FB6-001FBC 001FBE-001FBE 001FC2-001FC4 001FC6-001FCC 001FD0-001FD3 001FD6-001FDB",
      "001FE0-001FEC 001FF2-001FF4 001FF6-001FFC 002070-002071 002074-002079 00207F-002089",
      "002090-00209C 002102-002102 002107-002107 00210A-002113 002115-002115 002119-00211D",
      "002124-002124 002126-002126 002128-002128 00212A-00212D 00212F-002139 00213C-00213F",
      "002145-002149 00214E-00214E 002150-002189 002460-00249B 0024EA-0024FF 002776-002793",
      "002C00-002CE4 002CEB-002CEE 002CF2-002CF3 002CFD-002CFD 002D00-002D25 002D27-002D27",
      "002D2D-002D2D 002D30-002D67 002D6F-002D6F 002D80-002D96 002DA0-002DA6 002DA8-002DAE",
      "002DB0-002DB6 002DB8-002DBE 002DC0-002DC6 002DC8-002DCE 002DD0-002DD6 002DD8-002DDE",
      "002E2F-002E2F 003005-003007 003021-003029 003031-003035 003038-00303C 003041-003096",
      "00309D-00309F 0030A1-0030FA 0030FC-0030FF 003105-00312F 003131-00318E 003192-003195",
      "0031A0-0031BF 0031F0-0031FF 003220-003229 003248-00324F 003251-00325F 003280-003289",
      "0032B1-0032BF 003400-004DBF 004E00-00A48C 00A4D0-00A4FD 00A500-00A60C 00A610-00A62B",
      "00A640-00A66E 00A67F-00A69D 00A6A0-00A6EF 00A717-00A71F 00A722-00A788 00A78B-00A7CA",
      "00A7D0-00A7D1 00A7D3-00A7D3 00A7D5-00A7D9 00A7F2-00A801 00A803-00A805 00A807-00A80A",
      "00A80C-00A822 00A830-00A835 00A840-00A873 00A882-00A8B3 00A8D0-00A8D9 00A8F2-00A8F7",
      "00A8FB-00A8FB 00A8FD-00A8FE 00A900-00A925 00A930-00A946 00A960-00A97C 00A984-00A9B2",
      "00A9CF-00A9D9 00A9E0-00A9E4 00A9E6-00A9FE 00AA00-00AA28 00AA40-00AA42 00AA44-00AA4B",
      "00AA50-00AA59 00AA60-00AA76 00AA7A-00AA7A 00AA7E-00AAAF 00AAB1-00AAB1 00AAB5-00AAB6",
      "00AAB9-00AABD 00AAC0-00AAC0 00AAC2-00AAC2 00AADB-00AADD 00AAE0-00AAEA 00AAF2-00AAF4",
      "00AB01-00AB06 00AB09-00AB0E 00AB11-00AB16 00AB20-00AB26 00AB28-00AB2E 00AB30-00AB5A",
      "00AB5C-00AB69 00AB70-00ABE2 00ABF0-00ABF9 00AC00-00D7A3 00D7B0-00D7C6 00D7CB-00D7FB",
      "00F900-00FA6D 00FA70-00FAD9 00FB00-00FB06 00FB13-00FB17 00FB1D-00FB1D 00FB1F-00FB28",
      "00FB2A-00FB36 00FB38-00FB3C 00FB3E-00FB3E 00FB40-00FB41 00FB43-00FB44 00FB46-00FBB1",
      "00FBD3-00FD3D 00FD50-00FD8F 00FD92-00FDC7 00FDF0-00FDFB 00FE70-00FE74 00FE76-00FEFC",
      "00FF10-00FF19 00FF21-00FF3A 00FF41-00FF5A 00FF66-00FFBE 00FFC2-00FFC7 00FFCA-00FFCF",
      "00FFD2-00FFD7 00FFDA-00FFDC 010000-01000B 01000D-010026 010028-01003A 01003C-01003D",
      "01003F-01004D 010050-01005D 010080-0100FA 010107-010133 010140-010178 01018A-01018B",
      "010280-01029C 0102A0-0102D0 0102E1-0102FB 010300-010323 01032D-01034A 010350-010375",
      "010380-01039D 0103A0-0103C3 0103C8-0103CF 0103D1-0103D5 010400-01049D 0104A0-0104A9",
      "0104B0-0104D3 0104D8-0104FB 010500-010527 010530-010563 010570-01057A 01057C-01058A",
      "01058C-010592 010594-010595 010597-0105A1 0105A3-0105B1 0105B3-0105B9 0105BB-0105BC",
      "010600-010736 010740-010755 010760-010767 010780-010785 010787-0107B0 0107B2-0107BA",
      "010800-010805 010808-010808 01080A-010835 010837-010838 01083C-01083C 01083F-010855",
      "010858-010876 010879-01089E 0108A7-0108AF 0108E0-0108F2 0108F4-0108F5 0108FB-01091B",
      "010920-010939 010980-0109B7 0109BC-0109CF 0109D2-010A00 010A10-010A13 010A15-010A17",
      "010A19-010A35 010A40-010A48 010A60-010A7E 010A80-010A9F 010AC0-010AC7 010AC9-010AE4",
      "010AEB-010AEF 010B00-010B35 010B40-010B55 010B58-010B72 010B78-010B91 010BA9-010BAF",
      "010C00-010C48 010C80-010CB2 010CC0-010CF2 010CFA-010D23 010D30-010D39 010E60-010E7E",
      "010E80-010EA9 010EB0-010EB1 010F00-010F27 010F30-010F45 010F51-010F54 010F70-010F81",
      "010FB0-010FCB 010FE0-010FF6 011003-011037 011052-01106F 011071-011072 011075-011075",
      "011083-0110AF 0110D0-0110E8 0110F0-0110F9 011103-011126 011136-01113F 011144-011144",
      "011147-011147 011150-011172 011176-011176 011183-0111B2 0111C1-0111C4 0111D0-0111DA",
      "0111DC-0111DC 0111E1-0111F4 011200-011211 011213-01122B 011280-011286 011288-011288",
      "01128A-01128D 01128F-01129D 01129F-0112A8 0112B0-0112DE 0112F0-0112F9 011305-01130C",
      "01130F-011310 011313-011328 01132A-011330 011332-011333 011335-011339 01133D-01133D",
      "011350-011350 01135D-011361 011400-011434 011447-01144A 011450-011459 01145F-011461",
      "011480-0114AF 0114C4-0114C5 0114C7-0114C7 0114D0-0114D9 011580-0115AE 0115D8-0115DB",
      "011600-01162F 011644-011644 011650-011659 011680-0116AA 0116B8-0116B8 0116C0-0116C9",
      "011700-01171A 011730-01173B 011740-011746 011800-01182B 0118A0-0118F2 0118FF-011906",
      "011909-011909 01190C-011913 011915-011916 011918-01192F 01193F-01193F 011941-011941",
      "011950-011959 0119A0-0119A7 0119AA-0119D0 0119E1-0119E1 0119E3-0119E3 011A00-011A00",
      "011A0B-011A32 011A3A-011A3A 011A50-011A50 011A5C-011A89 011A9D-011A9D 011AB0-011AF8",
      "011C00-011C08 011C0A-011C2E 011C40-011C40 011C50-011C6C 011C72-011C8F 011D00-011D06",
      "011D08-011D09 011D0B-011D30 011D46-011D46 011D50-011D59 011D60-011D65 011D67-011D68",
      "011D6A-011D89 011D98-011D98 011DA0-011DA9 011EE0-011EF2 011FB0-011FB0 011FC0-011FD4",
      "012000-012399 012400-01246E 012480-012543 012F90-012FF0 013000-01342E 014400-014646",
      "016800-016A38 016A40-016A5E 016A60-016A69 016A70-016ABE 016AC0-016AC9 016AD0-016AED",
      "016B00-016B2F 016B40-016B43 016B50-016B59 016B5B-016B61 016B63-016B77 016B7D-016B8F",
      "016E40-016E96 016F00-016F4A 016F50-016F50 016F93-016F9F 016FE0-016FE1 016FE3-016FE3",
      "017000-0187F7 018800-018CD5 018D00-018D08 01AFF0-01AFF3 01AFF5-01AFFB 01AFFD-01AFFE",
      "01B000-01B122 01B150-01B152 01B164-01B167 01B170-01B2FB 01BC00-01BC6A 01BC70-01BC7C",
      "01BC80-01BC88 01BC90-01BC99 01D2E0-01D2F3 01D360-01D378 01D400-01D454 01D456-01D49C",
      "01D49E-01D49F 01D4A2-01D4A2 01D4A5-01D4A6 01D4A9-01D4AC 01D4AE-01D4B9 01D4BB-01D4BB",
      "01D4BD-01D4C3 01D4C5-01D505 01D507-01D50A 01D50D-01D514 01D516-01D51C 01D51E-01D539",
      "01D53B-01D53E 01D540-01D544 01D546-01D546 01D54A-01D550 01D552-01D6A5 01D6A8-01D6C0",
      "01D6C2-01D6DA 01D6DC-01D6FA 01D6FC-01D714 01D716-01D734 01D736-01D74E 01D750-01D76E",
      "01D770-01D788 01D78A-01D7A8 01D7AA-01D7C2 01D7C4-01D7CB 01D7CE-01D7FF 01DF00-01DF1E",
      "01E100-01E12C 01E137-01E13D 01E140-01E149 01E14E-01E14E 01E290-01E2AD 01E2C0-01E2EB",
      "01E2F0-01E2F9 01E7E0-01E7E6 01E7E8-01E7EB 01E7ED-01E7EE 01E7F0-01E7FE 01E800-01E8C4",
      "01E8C7-01E8CF 01E900-01E943 01E94B-01E94B 01E950-01E959 01EC71-01ECAB 01ECAD-01ECAF",
      "01ECB1-01ECB4 01ED01-01ED2D 01ED2F-01ED3D 01EE00-01EE03 01EE05-01EE1F 01EE21-01EE22",
      "01EE24-01EE24 01EE27-01EE27 01EE29-01EE32 01EE34-01EE37 01EE39-01EE39 01EE3B-01EE3B",
      "01EE42-01EE42 01EE47-01EE47 01EE49-01EE49 01EE4B-01EE4B 01EE4D-01EE4F 01EE51-01EE52",
      "01EE54-01EE54 01EE57-01EE57 01EE59-01EE59 01EE5B-01EE5B 01EE5D-01EE5D 01EE5F-01EE5F",
      "01EE61-01EE62 01EE64-01EE64 01EE67-01EE6A 01EE6C-01EE72 01EE74-01EE77 01EE79-01EE7C",
      "01EE7E-01EE7E 01EE80-01EE89 01EE8B-01EE9B 01EEA1-01EEA3 01EEA5-01EEA9 01EEAB-01EEBB",
      "01F100-01F10C 01FBF0-01FBF9 020000-02A6DF 02A700-02B738 02B740-02B81D 02B820-02CEA1",
      "02CEB0-02EBE0 02F800-02FA1D 030000-03134A">>

WordRanges == Ranges(WordRangeText)

\* the characters beyond Latin-1 that \d matches and int() converts: the
\* families of decimal digits (category Nd), the ten digits of a family
\* following each other in the order of their values
DecimalRangeText ==
    <<"000660-000669 0006F0-0006F9 0007C0-0007C9 000966-00096F 0009E6-0009EF 000A66-000A6F",
      "000AE6-000AEF 000B66-000B6F 000BE6-000BEF 000C66-000C6F 000CE6-000CEF 000D66-000D6F",
      "000DE6-000DEF 000E50-000E59 000ED0-000ED9 000F20-000F29 001040-001049 001090-001099",
      "0017E0-0017E9 001810-001819 001946-00194F 0019D0-0019D9 001A80-001A89 001A90-001A99",
      "001B50-001B59 001BB0-001BB9 001C40-001C49 001C50-001C59 00A620-00A629 00A8D0-00A8D9",
      "00A900-00A909 00A9D0-00A9D9 00A9F0-00A9F9 00AA50-00AA59 00ABF0-00ABF9 00FF10-00FF19",
      "0104A0-0104A9 010D30-010D39 011066-01106F 0110F0-0110F9 011136-01113F 0111D0-0111D9",
      "0112F0-0112F9 011450-011459 0114D0-0114D9 011650-011659 0116C0-0116C9 011730-011739",
      "0118E0-0118E9 011950-011959 011C50-011C59 011D50-011D59 011DA0-011DA9 016A60-016A69",
      "016AC0-016AC9 016B50-016B59 01D7CE-01D7D7 01D7D8-01D7E1 01D7E2-01D7EB 01D7EC-01D7F5",
      "01D7F6-01D7FF 01E140-01E149 01E2F0-01E2F9 01E950-01E959 01FBF0-01FBF9">>

DecimalRanges == Ranges(DecimalRangeText)

InRanges(n, ranges) ==
    \E k \in 1..Len(ranges) : ranges[k][1] <= n /\ n <= ranges[k][2]

\* \d of the regular expression: a decimal digit of any family
IsDigit(c) ==
    IF Len(c) = 1
    THEN \E i \in 1..10 : DigitChars[i] = c
    ELSE InRanges(ord(c), DecimalRanges)

\* \w of the regular expression
IsWordChar(c) ==
    IF Len(c) = 1 THEN c \in Latin1WordChars ELSE InRanges(ord(c), WordRanges)

\* the character class [\w:.-]
IsNameChar(c) == c \in {":", ".", "-"} \/ IsWordChar(c)

\* the value int() gives a decimal digit of any family
DigitVal(c) ==
    IF Len(c) = 1
    THEN (CHOOSE i \in 1..10 : DigitChars[i] = c) - 1
    ELSE LET cp == ord(c)
         IN  cp - DecimalRanges[CHOOSE f \in 1..Len(DecimalRanges) :
                                    /\ DecimalRanges[f][1] <= cp
                                    /\ cp <= DecimalRanges[f][2]][1]

\* int(version) on a string of decimal digits
RECURSIVE StrToInt(_)
StrToInt(ds) ==
    IF ds = <<>> THEN 0
    ELSE StrToInt(SubSeq(ds, 1, Len(ds) - 1)) * 10 + DigitVal(ds[Len(ds)])

\* the decimal text an f-string writes for a non-negative int
RECURSIVE IntToStr(_)
IntToStr(n) ==
    IF n < 10 THEN <<DigitChars[n + 1]>>
    ELSE IntToStr(n \div 10) \o <<DigitChars[(n % 10) + 1]>>

(***************************************************************************)
(* Errors                                                                  *)
(***************************************************************************)
\* kind names the error, arg is the value its message interpolates, listed the
\* registered names its message enumerates
NoError == [kind |-> "none", arg |-> <<>>, listed |-> <<>>]

\* ValueError("Malformed environment name: {id}. ...")
MalformedIdentifier(id) == [kind |-> "MalformedIdentifier", arg |-> id, listed |-> <<>>]

\* ValueError("Trying to override the registered environment {spec.id}.")
DuplicateRegistration(id) == [kind |-> "DuplicateRegistration", arg |-> id, listed |-> <<>>]

\* ValueError("The first version of an unregistered environment must be 0, got {spec.version}")
VersionGapError(version) ==
    [kind |-> "VersionGapError", arg |-> IntToStr(version), listed |-> <<>>]

\* ValueError("Unregistered environment {env_id}. Please select from ...: - name ...")
UnregisteredEnvironment(id, names) ==
    [kind |-> "UnregisteredEnvironment", arg |-> id, listed |-> names]

\* the collaborator's error replaced by one of the registry's own
RegistryErrorFor(kind) == [kind |-> "RegistryError", arg |-> kind, listed |-> <<>>]

\* an error raised outside the registry's own checks
OtherError(kind) == [kind |-> kind, arg |-> <<>>, listed |-> <<>>]

(***************************************************************************)
(* Identifier parser                                                       *)
(***************************************************************************)
\* the version group written with \d* : -v alone is a suffix
IsVersionSuffixOrBare(s) ==
    /\ Len(s) >= 2
    /\ s[1] = "-"
    /\ s[2] = "v"
    /\ \A i \in 3..Len(s) : IsDigit(s[i])

\* the optional group (?:-v(?P<version>\d+)) matched against a whole remainder
IsVersionSuffix(s) ==
    /\ Len(s) >= 3
    /\ s[1] = "-"
    /\ s[2] = "v"
    /\ \A i \in 3..Len(s) : IsDigit(s[i])

\* the name group written greedy, [\w:.-]+ : it takes the whole string
GreedyName(id, k) ==
    IF id # <<>> /\ \A i \in 1..Len(id) : IsNameChar(id[i]) THEN Len(id) ELSE 0

\* The lazy group (?P<name>[\w:.-]+?) tried with k characters: the engine takes
\* the first k at which the rest of the pattern matches the rest of the string,
\* and gives up (0) at a character outside the class or at the end.
RECURSIVE LazyName(_, _)
LazyName(id, k) ==
    IF k > Len(id) THEN 0
    ELSE IF ~IsNameChar(id[k]) THEN 0
    ELSE IF k = Len(id) \/ IsVersionSuffix(SubSeq(id, k + 1, Len(id))) THEN k
    ELSE LazyName(id, k + 1)

\* the match object of a name group of k characters: the groups name and
\* version, or None (matched = FALSE) when no k lets the pattern match
MatchObject(id, k) ==
    IF k = 0
    THEN [matched |-> FALSE, name |-> <<>>, hasVersion |-> FALSE, version |-> <<>>]
    ELSE [matched |-> TRUE,
          name |-> SubSeq(id, 1, k),
          hasVersion |-> k < Len(id),
          version |-> SubSeq(id, k + 3, Len(id))]

\* ENV_NAME_RE.fullmatch(id)
ENV_NAME_RE(id) == MatchObject(id, LazyName(id, 1))

\* the longest digit string int() converts (sys.get_int_max_str_digits())
IntMaxStrDigits == 4300

\* a parser that never raises: an id that does not match is a name of version 0
parse_without_raise(id) ==
    LET match == ENV_NAME_RE(id)
    IN  [ok |-> TRUE,
         error |-> NoError,
         name |-> IF match.matched THEN match.name ELSE id,
         version |-> IF match.matched /\ match.hasVersion
                     THEN StrToInt(match.version) ELSE 0]

\* lines 40-51 of parse_env_id on the match object of line 39
name_and_version(id, match) ==
    IF ~match.matched
    THEN [ok |-> FALSE, error |-> MalformedIdentifier(id), name |-> <<>>, version |-> 0]
    ELSE IF match.hasVersion /\ Len(match.version) > IntMaxStrDigits
    THEN [ok |-> FALSE, error |-> OtherError("ValueError"), name |-> <<>>, version |-> 0]
    ELSE [ok |-> TRUE,
          error |-> NoError,
          name |-> match.name,
          version |-> IF match.hasVersion THEN StrToInt(match.version) ELSE 0]

\* parse_env_id: ok = FALSE stands for a raised ValueError, error tells which:
\* the one of lines 41-44, or the one int() raises at line 49 for a version
\* of more than IntMaxStrDigits digits
parse_env_id(id) == name_and_version(id, ENV_NAME_RE(id))

\* the id written without the hyphen of the suffix
get_env_id_without_hyphen(name, version) == name \o <<"v">> \o IntToStr(version)

\* get_env_id: `version or 0` leaves every int as it is
get_env_id(name, version) ==
    LET v == IF version = 0 THEN 0 ELSE version
    IN  name \o <<"-", "v">> \o IntToStr(v)

(***************************************************************************)
(* Dictionaries                                                            *)
(***************************************************************************)
\* {}: the dict with no items
EmptyDict == [k \in {} |-> 0]

\* a membership test that never finds the key
DictHasNever(d, k) == FALSE

\* key in d
DictHas(d, k) == \E i \in 1..Len(d) : d[i].key = k

\* a lookup that gives the record registered first, whatever the key
DictGetFirst(d, k) == d[1].value

\* d[key] of a key that is present
DictGet(d, k) == d[CHOOSE i \in 1..Len(d) : d[i].key = k].value

\* a new key put first instead of last
DictSetFront(d, k, v) == <<[key |-> k, value |-> v]>> \o d

\* the name rebound to a dict holding only the new item
DictSetOnly(d, k, v) == <<[key |-> k, value |-> v]>>

\* d[key] = value: a present key keeps its position, a new key goes last
DictSet(d, k, v) ==
    IF DictHas(d, k)
    THEN [i \in 1..Len(d) |-> IF d[i].key = k THEN [key |-> k, value |-> v] ELSE d[i]]
    ELSE Append(d, [key |-> k, value |-> v])

\* list(d.keys()), also the order of iteration over d
DictKeys(d) == [i \in 1..Len(d) |-> d[i].key]

\* no copy: the stored dict object itself
dict_alias(d) == [obj |-> "stored", items |-> d]

\* env_spec.kwargs.copy(): a new dict object holding the same items
dict_copy(d) == [obj |-> "fresh", items |-> d]

\* an update in which the keys already present keep their values
dict_update_keep(target, other) ==
    [obj |-> target.obj,
     items |-> [k \in (DOMAIN target.items) \cup (DOMAIN other) |->
                    IF k \in DOMAIN target.items THEN target.items[k] ELSE other[k]]]

\* target.update(other): the object `target` names is changed in place
dict_update(target, other) ==
    [obj |-> target.obj,
     items |-> [k \in (DOMAIN target.items) \cup (DOMAIN other) |->
                    IF k \in DOMAIN other THEN other[k] ELSE target.items[k]]]

(***************************************************************************)
(* Registration records                                                    *)
(***************************************************************************)
NoSpec == [id |-> <<>>, entry_point |-> <<>>, kwargs |-> EmptyDict, name |-> <<>>, version |-> 0]

\* a record whose __post_init__ does not parse: the id is the name, at version 0
EnvSpecNamedById(id, entry_point, kw) ==
    IF ~(DOMAIN kw \subseteq {"kwargs"})
    THEN [error |-> OtherError("TypeError"), spec |-> NoSpec]
    ELSE [error |-> NoError,
          spec |-> [id |-> id,
                    entry_point |-> entry_point,
                    kwargs |-> IF "kwargs" \in DOMAIN kw THEN kw.kwargs ELSE EmptyDict,
                    name |-> id,
                    version |-> 0]]

\* EnvSpec(id=id, entry_point=entry_point, **kw): the generated __init__ takes
\* only the keyword `kwargs` beside id and entry_point; __post_init__ derives
\* name and version from id.
EnvSpec(id, entry_point, kw) ==
    IF ~(DOMAIN kw \subseteq {"kwargs"})
    THEN [error |-> OtherError("TypeError"), spec |-> NoSpec]
    ELSE LET parsed == parse_env_id(id)
         IN  IF ~parsed.ok
             THEN [error |-> parsed.error, spec |-> NoSpec]
             ELSE [error |-> NoError,
                   spec |-> [id |-> id,
                             entry_point |-> entry_point,
                             kwargs |-> IF "kwargs" \in DOMAIN kw THEN kw.kwargs ELSE EmptyDict,
                             name |-> parsed.name,
                             version |-> parsed.version]]

\* the check without its second test: any version is accepted for a new name
_check_only_duplicates(reg, spec) ==
    IF DictHas(reg, spec.id) THEN DuplicateRegistration(spec.id) ELSE NoError

\* the check without its first test: a registered id is not refused
_check_without_duplicate_test(reg, spec) ==
    IF ~(\E i \in 1..Len(reg) : reg[i].value.name = spec.name) /\ spec.version # 0
    THEN VersionGapError(spec.version)
    ELSE NoError

\* the check with latest_version taken over every record, whatever its name
_check_without_name_filter(reg, spec) ==
    IF DictHas(reg, spec.id)
    THEN DuplicateRegistration(spec.id)
    ELSE IF reg = <<>> /\ spec.version # 0
         THEN VersionGapError(spec.version)
         ELSE NoError

\* the check its comment describes: version v needs version v-1
_check_previous_version(reg, spec) ==
    IF DictHas(reg, spec.id)
    THEN DuplicateRegistration(spec.id)
    ELSE IF spec.version # 0
            /\ ~(\E i \in 1..Len(reg) :
                    /\ reg[i].value.name = spec.name
                    /\ reg[i].value.version = spec.version - 1)
         THEN VersionGapError(spec.version)
         ELSE NoError

\* _check_registration_is_allowed
_check_registration_is_allowed(reg, spec) ==
    IF DictHas(reg, spec.id)
    THEN DuplicateRegistration(spec.id)
    ELSE LET versions == {reg[i].value.version :
                             i \in {j \in 1..Len(reg) : reg[j].value.name = spec.name}}
             \* max(..., default=None)
             latest_version ==
                 IF versions = {}
                 THEN [isNone |-> TRUE, value |-> 0]
                 ELSE [isNone |-> FALSE,
                       value |-> CHOOSE x \in versions : \A y \in versions : y <= x]
         IN  IF latest_version.isNone /\ spec.version # 0
             THEN VersionGapError(spec.version)
             ELSE NoError

\* register(id, entry_point, **kw) on the registry reg.  A keyword named as
\* one of the two parameters gives the parameter a second value: the call
\* raises TypeError and the body is not entered.
register(reg, id, entry_point, kw) ==
    IF "id" \in DOMAIN kw \/ "entry_point" \in DOMAIN kw
    THEN [registry |-> reg, error |-> OtherError("TypeError"), env_id |-> <<>>]
    ELSE
    LET parsed == parse_env_id(id)
    IN  IF ~parsed.ok
        THEN [registry |-> reg, error |-> parsed.error, env_id |-> <<>>]
        ELSE LET env_id == get_env_id(parsed.name, parsed.version)
                 built == EnvSpec(env_id, entry_point, kw)
             IN  IF built.error # NoError
                 THEN [registry |-> reg, error |-> built.error, env_id |-> env_id]
                 ELSE LET allowed == _check_registration_is_allowed(reg, built.spec)
                      IN  IF allowed # NoError
                          THEN [registry |-> reg, error |-> allowed, env_id |-> env_id]
                          ELSE [registry |-> DictSet(reg, env_id, built.spec),
                                error |-> NoError, env_id |-> env_id]

(***************************************************************************)
(* Resolver and constructors                                               *)
(***************************************************************************)
\* name.split(sep)
RECURSIVE Split(_, _)
Split(s, sep) ==
    IF \A i \in 1..Len(s) : s[i] # sep
    THEN <<s>>
    ELSE LET i == CHOOSE x \in 1..Len(s) :
                      s[x] = sep /\ \A y \in 1..(x - 1) : s[y] # sep
         IN  <<SubSeq(s, 1, i - 1)>> \o Split(SubSeq(s, i + 1, Len(s)), sep)

\* What getattr(mod, attr_name) gives, described by what a call of it does.
\* callable: it can be called at all.  params: the names of its positional
\* parameters in order, of which the first bound are already filled (the self
\* of a class's __init__), the first posonly cannot be passed by keyword and
\* the last defaults have a default.  varargs: it has *args.  kwonly: its
\* keyword-only parameters, of which kwrequired have no default.  varkw: it
\* has **kwargs.  raises: the exception its body raises, "" if it returns.
NoFn ==
    [mod |-> <<>>, attr |-> <<>>, callable |-> FALSE, params |-> <<>>, bound |-> 0,
     posonly |-> 0, defaults |-> 0, varargs |-> FALSE, kwonly |-> {},
     kwrequired |-> {}, varkw |-> FALSE, raises |-> ""]

\* load(name) in a process whose import system finds the callables of modules,
\* each under its module name and attribute name.  The unpacking of line 159
\* needs exactly two parts; import_module refuses an empty name (ValueError)
\* and a relative one (TypeError, no package is given) before it looks for
\* the module.
load(modules, name) ==
    LET parts == Split(name, ":")
    IN  IF Len(parts) # 2
        THEN [error |-> OtherError("ValueError"), fn |-> NoFn]
        ELSE LET mod_name == parts[1]
                 attr_name == parts[2]
             IN  IF mod_name = <<>>
                 THEN [error |-> OtherError("ValueError"), fn |-> NoFn]
                 ELSE IF mod_name[1] = "."
                 THEN [error |-> OtherError("TypeError"), fn |-> NoFn]
                 ELSE IF ~(\E x \in modules : x.mod = mod_name)
                 THEN [error |-> OtherError("ModuleNotFoundError"), fn |-> NoFn]
                 ELSE IF ~(\E x \in modules : x.mod = mod_name /\ x.attr = attr_name)
                      THEN [error |-> OtherError("AttributeError"), fn |-> NoFn]
                      ELSE [error |-> NoError,
                            fn |-> CHOOSE x \in modules :
                                       x.mod = mod_name /\ x.attr = attr_name]

NoEnv == [fn |-> NoFn, args |-> <<>>, kwargs |-> EmptyDict]

\* The interpreter's binding of the arguments of a call to the parameters of
\* fn: the object is callable; no more positional arguments than positional
\* parameters unless it has *args; no parameter is given both by position and
\* by keyword; every keyword names a parameter that takes keywords unless it
\* has **kwargs; every parameter without a default is given.
ArgumentsFit(fn, args, kwargs) ==
    /\ fn.callable
    /\ fn.varargs \/ fn.bound + Len(args) <= Len(fn.params)
    /\ \A i \in (fn.posonly + 1)..Len(fn.params) :
           fn.params[i] \in DOMAIN kwargs => i > fn.bound + Len(args)
    /\ \A k \in DOMAIN kwargs :
           \/ \E i \in (fn.posonly + 1)..Len(fn.params) : fn.params[i] = k
           \/ k \in fn.kwonly
           \/ fn.varkw
    /\ \A i \in 1..(Len(fn.params) - fn.defaults) :
           \/ i <= fn.bound + Len(args)
           \/ i > fn.posonly /\ fn.params[i] \in DOMAIN kwargs
    /\ fn.kwrequired \subseteq DOMAIN kwargs

\* env_fn(*args, **env_fn_kwargs): the call raises TypeError when the arguments
\* do not fit the callable, raises what the body raises, and otherwise gives
\* the object built from the arguments
env_fn(fn, args, kwargs) ==
    IF ~ArgumentsFit(fn, args, kwargs)
    THEN [error |-> OtherError("TypeError"), env |-> NoEnv]
    ELSE IF fn.raises # ""
    THEN [error |-> OtherError(fn.raises), env |-> NoEnv]
    ELSE [error |-> NoError, env |-> [fn |-> fn, args |-> args, kwargs |-> kwargs]]

\* the collaborator invocations a call makes, in order
LoadEvent(name) == [what |-> "load", name |-> name, args |-> <<>>, kwargs |-> EmptyDict]
CallEvent(name, args, kwargs) == [what |-> "call", name |-> name, args |-> args, kwargs |-> kwargs]

\* the listing without the keys' version suffix: the records' names
registered_names(reg) == [i \in 1..Len(reg) |-> reg[i].value.name]

\* "\n".join("- " + name for name in _REGISTRY): one line for each key
registered_envs(reg) == DictKeys(reg)

\* make(id, *args, **kwargs) on the registry reg, in a process whose import
\* system finds modules.  env_fn_kwargs names a dict object; an update of the
\* stored object shows in the registry.  A keyword named id gives the
\* parameter a second value: the call raises TypeError and the body is not
\* entered.
make(reg, modules, id, args, kwargs) ==
    IF "id" \in DOMAIN kwargs
    THEN [registry |-> reg, error |-> OtherError("TypeError"), env |-> NoEnv,
          events |-> <<>>]
    ELSE
    LET parsed == parse_env_id(id)
    IN  IF ~parsed.ok
        THEN [registry |-> reg, error |-> parsed.error, env |-> NoEnv, events |-> <<>>]
        ELSE
        LET env_id == get_env_id(parsed.name, parsed.version)
        IN  IF ~DictHas(reg, env_id)
            THEN [registry |-> reg,
                  error |-> UnregisteredEnvironment(env_id, registered_envs(reg)),
                  env |-> NoEnv, events |-> <<>>]
            ELSE
            LET env_spec == DictGet(reg, env_id)
                env_fn_kwargs == dict_update(dict_copy(env_spec.kwargs), kwargs)
                after == IF env_fn_kwargs.obj = "stored"
                         THEN DictSet(reg, env_id,
                                      [env_spec EXCEPT !.kwargs = env_fn_kwargs.items])
                         ELSE reg
                loaded == load(modules, env_spec.entry_point)
            IN  IF loaded.error # NoError
                THEN [registry |-> after, error |-> loaded.error, env |-> NoEnv,
                      events |-> <<LoadEvent(env_spec.entry_point)>>]
                ELSE LET built == env_fn(loaded.fn, args, env_fn_kwargs.items)
                     IN  [registry |-> after, error |-> built.error, env |-> built.env,
                          events |-> <<LoadEvent(env_spec.entry_point),
                                       CallEvent(env_spec.entry_point, args,
                                                 env_fn_kwargs.items)>>]

\* registered_environments()
registered_environments(reg) == DictKeys(reg)

(***************************************************************************)
(* What the callers pass                                                   *)
(***************************************************************************)
Versions == 0..MaxVersion

\* f-vN, the same with the suffix omitted or written with a leading zero,
\* names that themselves hold -v, and strings the grammar refuses
RawIds ==
    {<<"f", "-", "v">> \o IntToStr(v) : v \in Versions}
    \cup {<<"f">>,
          <<"f", "-", "v", "0", "1">>,
          <<"f", "o", "o", "-", "v">>,
          <<"f", "o", "o", "-", "v", "-", "1">>,
          <<"f", "!">>,
          <<>>}

\* The process the calls run in: what its import system finds.  The module m
\* holds
\*     def f(**kwargs): ...
\*     def g(size, seed=1, **kwargs): ...
\*     def h(**kwargs): raise RuntimeError
\*     class E:
\*         def __init__(self, size, *, seed=1): ...
\*     n = 1
\* and nothing named q, and there is no module x.  The attributes every
\* module has of itself (__name__, __doc__, ...) are not listed.
Function(mod, attr) == [NoFn EXCEPT !.mod = mod, !.attr = attr, !.callable = TRUE]

SysModules ==
    {[Function(<<"m">>, <<"f">>) EXCEPT !.varkw = TRUE],
     [Function(<<"m">>, <<"g">>) EXCEPT !.params = <<"size", "seed">>,
                                        !.defaults = 1, !.varkw = TRUE],
     [Function(<<"m">>, <<"h">>) EXCEPT !.varkw = TRUE, !.raises = "RuntimeError"],
     [Function(<<"m">>, <<"E">>) EXCEPT !.params = <<"self", "size">>, !.bound = 1,
                                        !.kwonly = {"seed"}],
     [NoFn EXCEPT !.mod = <<"m">>, !.attr = <<"n">>]}

Defaults == [size |-> 4, seed |-> 1]

\* the keyword arguments of a register call: none, kwargs=Defaults, or size=4
RegisterKeywords == {EmptyDict, [kwargs |-> Defaults], [size |-> 4]}

\* what a register call passes after the id: the constructor m:f with
\* kwargs=Defaults, m:f with the stray keyword size=4, or x:f, whose module
\* cannot be imported, alone
RegisterCalls ==
    {[entry_point |-> <<"m", ":", "f">>, kw |-> [kwargs |-> Defaults]],
     [entry_point |-> <<"m", ":", "f">>, kw |-> [size |-> 4]],
     [entry_point |-> <<"x", ":", "f">>, kw |-> EmptyDict]}

\* the arguments of a make call after the id: nothing, keyword overrides, or
\* a positional argument and keyword overrides
MakeCalls ==
    {[args |-> <<>>, kwargs |-> EmptyDict],
     [args |-> <<>>, kwargs |-> [size |-> 8, extra |-> 2]],
     [args |-> <<7>>, kwargs |-> [size |-> 8, extra |-> 2]]}

(***************************************************************************)
(* State                                                                   *)
(***************************************************************************)
VARIABLES
    _REGISTRY,   \* the process-wide dict, as a sequence of (key, value) entries
    last,        \* the most recent call: its arguments and what it gave back
    succeeded,   \* canonical ids of the register calls that returned, in order
    calls,       \* the register call each thread is in, and how far it has got
    lock         \* the callers' mutex: its holder, "free", or "unused" if they have none

vars == <<_REGISTRY, last, succeeded, calls, lock>>

Threads == {"t1", "t2"}

\* a thread that has not called register: pc is the statement it is at, used and
\* pos are the dict iterator of the generator at lines 107-110, versions what
\* the generator has yielded
NoThreadCall ==
    [pc |-> "idle", id |-> <<>>, spec |-> NoSpec, error |-> NoError,
     used |-> 0, pos |-> 0, versions |-> {}]

\* no thread is in register, and no mutex is in use
NoThreads ==
    /\ calls = [t \in Threads |-> NoThreadCall]
    /\ lock = "unused"

NoCall ==
    [op |-> "none", id |-> <<>>, entry_point |-> <<>>, kw |-> EmptyDict,
     args |-> <<>>, kwargs |-> EmptyDict,
     error |-> NoError, value |-> <<>>, env |-> NoEnv, events |-> <<>>]

Init ==
    /\ _REGISTRY = <<>>
    /\ last = NoCall
    /\ succeeded = <<>>
    /\ NoThreads

Register(id, entry_point, kw) ==
    /\ Len(_REGISTRY) < MaxReg
    /\ \E r \in {register(_REGISTRY, id, entry_point, kw)} :
           /\ _REGISTRY' = r.registry
           /\ last' = [NoCall EXCEPT !.op = "register", !.id = id,
                                     !.entry_point = entry_point, !.kw = kw,
                                     !.error = r.error]
           /\ succeeded' = IF r.error = NoError
                           THEN Append(succeeded, r.env_id)
                           ELSE succeeded
    /\ UNCHANGED <<calls, lock>>

Make(id, args, kwargs) ==
    \E r \in {make(_REGISTRY, SysModules, id, args, kwargs)} :
        /\ _REGISTRY' = r.registry
        /\ last' = [NoCall EXCEPT !.op = "make", !.id = id, !.args = args,
                                  !.kwargs = kwargs, !.error = r.error,
                                  !.env = r.env, !.events = r.events]
        /\ UNCHANGED <<succeeded, calls, lock>>

RegisteredEnvironments ==
    /\ last' = [NoCall EXCEPT !.op = "registered_environments",
                              !.value = registered_environments(_REGISTRY)]
    /\ UNCHANGED <<_REGISTRY, succeeded, calls, lock>>

Next ==
    \/ \E id \in RawIds, call \in RegisterCalls :
           Register(id, call.entry_point, call.kw)
    \/ \E id \in RawIds, call \in MakeCalls :
           Make(id, call.args, call.kwargs)
    \/ RegisteredEnvironments

Spec == Init /\ [][Next]_vars

(***************************************************************************)
(* The same calls with every kind of entry point                           *)
(***************************************************************************)
ResolveIds == {<<"f", "-", "v", "0">>, <<"f", "-", "v", "1">>}

\* the callables of m, the attribute n that is no callable, the attribute q
\* that m has not, the module x that does not exist, and references that are
\* no module:attribute pair, have an empty module name or a relative one
ResolveEntryPoints ==
    {<<"m", ":", "f">>, <<"m", ":", "g">>, <<"m", ":", "h">>, <<"m", ":", "E">>,
     <<"m", ":", "n">>, <<"m", ":", "q">>, <<"x", ":", "f">>,
     <<"m">>, <<"m", ":", "f", ":", "f">>, <<":", "f">>, <<".", "m", ":", "f">>}

\* the keyword arguments of a register call: those above, and a keyword
\* named as a parameter of register
ResolveKeywords == RegisterKeywords \cup {[id |-> 4], [entry_point |-> 4]}

\* the arguments of a make call after the id, among them a keyword named id
ResolveCalls ==
    MakeCalls
    \cup {[args |-> <<7>>, kwargs |-> EmptyDict],
          [args |-> <<7, 9, 3>>, kwargs |-> EmptyDict],
          [args |-> <<>>, kwargs |-> [seed |-> 3]],
          [args |-> <<>>, kwargs |-> [id |-> 4]]}

ResolveNext ==
    \/ \E id \in ResolveIds, entry_point \in ResolveEntryPoints, kw \in ResolveKeywords :
           Register(id, entry_point, kw)
    \/ \E id \in ResolveIds, call \in ResolveCalls :
           Make(id, call.args, call.kwargs)
    \/ RegisteredEnvironments

ResolveSpec == Init /\ [][ResolveNext]_vars

(***************************************************************************)
(* The parser and the formatter on their own                               *)
(***************************************************************************)
\* characters of the strings tried: a letter, the two characters of the
\* suffix marker, two digits, a character outside the grammar, a letter of
\* Latin-1, and a letter and a decimal digit beyond Latin-1
Alphabet == {"f", "-", "v", "0", "1", "!", "é", "U+03A9", "U+0663"}

\* every string over Alphabet of the length given or less
StringsUpTo(n) == UNION {[1..k -> Alphabet] : k \in 0..n}

Strings == StringsUpTo(MaxLen)

Names == StringsUpTo(MaxNameLen)

\* versions handed to get_env_id: one, two and three decimal digits
FormatVersions == (0..MaxVersion) \cup {10, 12, 105}

PureInit ==
    /\ _REGISTRY = <<>>
    /\ last = NoCall
    /\ succeeded = <<>>
    /\ NoThreads
    /\ NoThreads

\* parse_env_id(id) called on its own, on any of the strings
ParseEnvId ==
    /\ last.op = "none"
    /\ \E id \in Strings :
           last' = [NoCall EXCEPT !.op = "parse_env_id", !.id = id,
                                 !.value = parse_env_id(id)]
    /\ UNCHANGED <<_REGISTRY, succeeded, calls, lock>>

\* get_env_id(name, version) called on its own, on any name and version
GetEnvId ==
    /\ last.op = "none"
    /\ \E name \in Names, version \in FormatVersions :
           last' = [NoCall EXCEPT !.op = "get_env_id", !.args = <<name, version>>,
                                 !.value = get_env_id(name, version)]
    /\ UNCHANGED <<_REGISTRY, succeeded, calls, lock>>

\* parse_env_id applied to the id get_env_id returned, as EnvSpec does with
\* the id register hands it
ParseFormatted ==
    /\ last.op = "get_env_id"
    /\ last' = [last EXCEPT !.op = "parse_env_id", !.id = last.value,
                            !.value = parse_env_id(last.value)]
    /\ UNCHANGED <<_REGISTRY, succeeded, calls, lock>>

\* get_env_id applied to the pair parse_env_id returned, as register and make
\* do with the id they are given
FormatParsed ==
    /\ last.op = "parse_env_id"
    /\ last.value.ok
    /\ last' = [last EXCEPT !.op = "get_env_id",
                            !.args = <<last.value.name, last.value.version>>,
                            !.value = get_env_id(last.value.name, last.value.version)]
    /\ UNCHANGED <<_REGISTRY, succeeded, calls, lock>>

PureNext ==
    \/ ParseEnvId
    \/ GetEnvId
    \/ ParseFormatted
    \/ FormatParsed

PureSpec == PureInit /\ [][PureNext]_vars

(***************************************************************************)
(* register called from two threads                                        *)
(*                                                                         *)
(* The interpreter may switch threads between any two statements, and      *)
(* inside the generator expression between any two items.  A membership    *)
(* test, the making of a dict iterator, one step of it and one item        *)
(* assignment are each atomic.  Callers that share a mutex hold it for     *)
(* the whole call.                                                         *)
(***************************************************************************)
\* the ids the threads register: two spellings of f-v0, and f-v1
RaceIds ==
    {<<"f">>, <<"f", "-", "v", "0">>, <<"f", "-", "v", "1">>, <<"f", "!">>}

\* each thread registers its own entry point, so a record tells who stored it
EntryPointOf == [t \in Threads |-> IF t = "t1" THEN <<"m", ":", "f">> ELSE <<"x", ":", "f">>]

\* the registry before the threads start: empty, or holding g-v0
RaceRegistries ==
    {<<>>, register(<<>>, <<"g">>, <<"m", ":", "f">>, EmptyDict).registry}

RaceInit ==
    /\ _REGISTRY \in RaceRegistries
    /\ last = NoCall
    /\ succeeded = registered_environments(_REGISTRY)
    /\ calls = [t \in Threads |-> NoThreadCall]
    /\ lock \in {"unused", "free"}

\* the mutex after thread t has left register, by return or by exception
Released(t) == IF lock = t THEN "free" ELSE lock

\* lines 134-142: thread t enters register(id, EntryPointOf[t]), taking the
\* mutex first if the callers use one; it parses the id and builds the spec
Call(t, id) ==
    /\ calls[t].pc = "idle"
    /\ lock \in {"unused", "free"}
    /\ \E parsed \in {parse_env_id(id)} :
           IF ~parsed.ok
           THEN /\ calls' = [calls EXCEPT ![t] =
                                [@ EXCEPT !.pc = "raised", !.id = id,
                                          !.error = parsed.error]]
                /\ lock' = lock
           ELSE \E built \in {EnvSpec(get_env_id(parsed.name, parsed.version),
                                       EntryPointOf[t], EmptyDict)} :
                    /\ calls' = [calls EXCEPT ![t] =
                                    [@ EXCEPT !.pc = "line103", !.id = id,
                                              !.spec = built.spec]]
                    /\ lock' = IF lock = "free" THEN t ELSE lock
    /\ UNCHANGED <<_REGISTRY, last, succeeded>>

\* lines 103-104: the membership test
TestId(t) ==
    /\ calls[t].pc = "line103"
    /\ IF DictHas(_REGISTRY, calls[t].spec.id)
       THEN /\ calls' = [calls EXCEPT ![t] =
                            [@ EXCEPT !.pc = "raised",
                                      !.error = DuplicateRegistration(calls[t].spec.id)]]
            /\ lock' = Released(t)
       ELSE /\ calls' = [calls EXCEPT ![t] = [@ EXCEPT !.pc = "line107"]]
            /\ lock' = lock
    /\ UNCHANGED <<_REGISTRY, last, succeeded>>

\* lines 107-108: the generator expression is made, and with it the iterator
\* over _REGISTRY.values(), which notes the size the dict has now
MakeIterator(t) ==
    /\ calls[t].pc = "line107"
    /\ calls' = [calls EXCEPT ![t] =
                    [@ EXCEPT !.pc = "line108", !.used = Len(_REGISTRY),
                              !.pos = 0, !.versions = {}]]
    /\ UNCHANGED <<_REGISTRY, last, succeeded, lock>>

\* lines 108-115: one step of the iterator.  It raises RuntimeError if the
\* dict has changed size since the iterator was made; it yields the next
\* record, whose version the generator keeps if the name is the spec's; or it
\* is exhausted, and max() and the test of line 112 decide.
IterateValues(t) ==
    /\ calls[t].pc = "line108"
    /\ IF Len(_REGISTRY) # calls[t].used
       THEN /\ calls' = [calls EXCEPT ![t] =
                            [@ EXCEPT !.pc = "raised",
                                      !.error = OtherError("RuntimeError")]]
            /\ lock' = Released(t)
       ELSE IF calls[t].pos < calls[t].used
       THEN /\ \E _spec \in {_REGISTRY[calls[t].pos + 1].value} :
                   calls' = [calls EXCEPT ![t] =
                       [@ EXCEPT !.pos = @ + 1,
                                 !.versions = IF _spec.name = calls[t].spec.name
                                              THEN @ \cup {_spec.version} ELSE @]]
            /\ lock' = lock
       ELSE IF calls[t].versions = {} /\ calls[t].spec.version # 0
       THEN /\ calls' = [calls EXCEPT ![t] =
                            [@ EXCEPT !.pc = "raised",
                                      !.error = VersionGapError(calls[t].spec.version)]]
            /\ lock' = Released(t)
       ELSE /\ calls' = [calls EXCEPT ![t] = [@ EXCEPT !.pc = "line147"]]
            /\ lock' = lock
    /\ UNCHANGED <<_REGISTRY, last, succeeded>>

\* line 147: the item assignment, after which register returns
Insert(t) ==
    /\ calls[t].pc = "line147"
    /\ _REGISTRY' = DictSet(_REGISTRY, calls[t].spec.id, calls[t].spec)
    /\ succeeded' = Append(succeeded, calls[t].spec.id)
    /\ calls' = [calls EXCEPT ![t] = [@ EXCEPT !.pc = "returned"]]
    /\ lock' = Released(t)
    /\ UNCHANGED last

RaceNext ==
    \E t \in Threads :
        \/ \E id \in RaceIds : Call(t, id)
        \/ TestId(t)
        \/ MakeIterator(t)
        \/ IterateValues(t)
        \/ Insert(t)

RaceSpec == RaceInit /\ [][RaceNext]_vars

(***************************************************************************)
(* Vocabulary of the properties                                            *)
(***************************************************************************)
WellFormed(id) == parse_env_id(id).ok

\* the canonical form name-vN of a well-formed id
Canonical(id) == get_env_id(parse_env_id(id).name, parse_env_id(id).version)

\* a register call of the shape register(id, entry_point, kwargs): the only
\* keyword, if any, is kwargs
PlainKeywords == {kw \in RegisterKeywords : DOMAIN kw \subseteq {"kwargs"}}

\* some record of the registry has this name
NameRegistered(reg, name) == \E i \in 1..Len(reg) : reg[i].value.name = name

(***************************************************************************)
(* Properties                                                              *)
(***************************************************************************)
\* C1: a register call whose well-formed id has its canonical form already in
\* the registry fails with the duplicate-registration error and leaves the
\* registry exactly as it was: same keys, same records, same order.
C1_DuplicateRejected ==
    [][(last'.op = "register" /\ last'.kw \in PlainKeywords) =>
           \A env_id \in {Canonical(last'.id)} :
               (WellFormed(last'.id) /\ DictHas(_REGISTRY, env_id)) =>
                   /\ last'.error = DuplicateRegistration(env_id)
                   /\ _REGISTRY' = _REGISTRY]_vars

\* a duplicate registration was refused, here one whose id is not written in
\* the canonical form of the key it collides with
C1_Witness ==
    /\ last.op = "register"
    /\ last.error.kind = "DuplicateRegistration"
    /\ DictHas(_REGISTRY, Canonical(last.id))
    /\ last.id # Canonical(last.id)

\* C2: for every name and every version V > 0 registered under it, all the
\* versions 0..V-1 of that name are registered too, and were registered
\* before V.
C2_GapFree ==
    \A i \in 1..Len(_REGISTRY) :
        \A v \in 0..(_REGISTRY[i].value.version - 1) :
            \E j \in 1..(i - 1) :
                /\ _REGISTRY[j].value.name = _REGISTRY[i].value.name
                /\ _REGISTRY[j].value.version = v

\* C3: a register call of a well-formed id with a version other than 0, whose
\* name has no record of any version, fails with the version-gap error and
\* leaves the registry unchanged.
C3_FirstVersionMustBeZero ==
    [][(last'.op = "register" /\ last'.kw \in PlainKeywords) =>
           \A parsed \in {parse_env_id(last'.id)} :
               (/\ parsed.ok
                /\ parsed.version # 0
                /\ ~NameRegistered(_REGISTRY, parsed.name)) =>
                   /\ last'.error = VersionGapError(parsed.version)
                   /\ _REGISTRY' = _REGISTRY]_vars

\* a non-zero version was refused for a name without records, while records
\* of another name are in the registry
C3_Witness ==
    /\ last.op = "register"
    /\ last.error.kind = "VersionGapError"
    /\ WellFormed(last.id)
    /\ ~NameRegistered(_REGISTRY, parse_env_id(last.id).name)
    /\ _REGISTRY # <<>>

\* C4: a register call of a well-formed id succeeds exactly when its canonical
\* id is not in the registry and its version is 0 or some record of the same
\* name, of any version, is in the registry; on success the canonical id is a
\* key of the registry.  Intermediate versions are not required.
C4_RegisterSucceedsIff ==
    [][(last'.op = "register" /\ last'.kw \in PlainKeywords) =>
           \A parsed \in {parse_env_id(last'.id)} :
               parsed.ok =>
                   \A env_id \in {get_env_id(parsed.name, parsed.version)} :
                       /\ (last'.error = NoError) <=>
                              /\ ~DictHas(_REGISTRY, env_id)
                              /\ \/ parsed.version = 0
                                 \/ NameRegistered(_REGISTRY, parsed.name)
                       /\ (last'.error = NoError) =>
                              /\ DictHas(_REGISTRY', env_id)
                              /\ ~DictHas(_REGISTRY, env_id)]_vars

\* version 1 of f was accepted after version 2, which had been accepted with
\* only version 0 before it
C4_Witness ==
    /\ last.op = "register"
    /\ last.error = NoError
    /\ parse_env_id(last.id) =
           [ok |-> TRUE, error |-> NoError, name |-> <<"f">>, version |-> 1]
    /\ Len(_REGISTRY) = 3
    /\ \A i \in 1..3 : _REGISTRY[i].value.name = <<"f">>
    /\ [i \in 1..3 |-> _REGISTRY[i].value.version] = <<0, 2, 1>>

\* C5: make of a registered id whose entry point resolves invokes the
\* constructor, once, with the positional arguments unchanged and with the
\* stored kwargs overridden key by key by the call's: every key of the call
\* has the call's value, every key only stored has the stored value, and no
\* other key is passed.
C5_MakeMergesKwargs ==
    [][last'.op = "make" =>
           \A env_id \in {Canonical(last'.id)} :
               (WellFormed(last'.id) /\ DictHas(_REGISTRY, env_id)) =>
                   \A env_spec \in {DictGet(_REGISTRY, env_id)} :
                       load(SysModules, env_spec.entry_point).error = NoError =>
                           /\ Len(last'.events) = 2
                           /\ last'.events[1].what = "load"
                           /\ last'.events[2].what = "call"
                           /\ last'.events[2].args = last'.args
                           /\ \A passed \in {last'.events[2].kwargs} :
                                  /\ DOMAIN passed =
                                         (DOMAIN env_spec.kwargs) \cup (DOMAIN last'.kwargs)
                                  /\ \A k \in DOMAIN last'.kwargs :
                                         passed[k] = last'.kwargs[k]
                                  /\ \A k \in (DOMAIN env_spec.kwargs) \ (DOMAIN last'.kwargs) :
                                         passed[k] = env_spec.kwargs[k]]_vars

\* a constructor was invoked with an overridden key, a key only stored and a
\* key only given by the call
C5_Witness ==
    /\ last.op = "make"
    /\ \E i \in 1..Len(last.events) :
           /\ last.events[i].what = "call"
           /\ last.events[i].kwargs = [size |-> 8, seed |-> 1, extra |-> 2]
    /\ DictHas(_REGISTRY, Canonical(last.id))
    /\ DictGet(_REGISTRY, Canonical(last.id)).kwargs = Defaults

\* C6: make never changes the registry, whether it returns or raises: keys,
\* order, entry points and stored kwargs are the same after the call, so the
\* overrides of one call are not the defaults of the next.
C6_MakeLeavesRegistry ==
    [][last'.op = "make" => _REGISTRY' = _REGISTRY]_vars

\* a make call returned an environment built with size overridden, and the
\* record still stores the registered default
C6_Witness ==
    /\ last.op = "make"
    /\ last.error = NoError
    /\ last.env.kwargs = [size |-> 8, seed |-> 1, extra |-> 2]
    /\ DictGet(_REGISTRY, Canonical(last.id)).kwargs = [size |-> 4, seed |-> 1]

\* C7: make of a well-formed id whose canonical form is not a key fails with
\* the unregistered-environment error, whose message lists exactly the keys
\* of the registry at the time of the call, each once.
C7_UnregisteredListsAll ==
    [][last'.op = "make" =>
           \A env_id \in {Canonical(last'.id)} :
               (WellFormed(last'.id) /\ ~DictHas(_REGISTRY, env_id)) =>
                   /\ last'.error.kind = "UnregisteredEnvironment"
                   /\ last'.error.arg = env_id
                   /\ Len(last'.error.listed) = Len(_REGISTRY)
                   /\ \A i \in 1..Len(_REGISTRY) :
                          \E j \in 1..Len(last'.error.listed) :
                              last'.error.listed[j] = _REGISTRY[i].key
                   /\ last'.events = <<>>]_vars

\* an unregistered id was refused with a message listing two registered ids
C7_Witness ==
    /\ last.op = "make"
    /\ last.error.kind = "UnregisteredEnvironment"
    /\ Len(last.error.listed) = 2
    /\ last.error.listed = DictKeys(_REGISTRY)

\* ids the specification treats as one entry: the suffix omitted and -v0,
\* and a version written with and without a leading zero
SameEntryPairs ==
    {<<<<"f">>, <<"f", "-", "v", "0">>>>,
     <<<<"f", "-", "v", "1">>, <<"f", "-", "v", "0", "1">>>>}

\* register(t, ...) is refused as a duplicate in the registry reg
RefusedAsDuplicate(reg, t) ==
    register(reg, t, <<"m", ":", "f">>, EmptyDict).error.kind = "DuplicateRegistration"

\* make(t) finds a record in the registry reg
Found(reg, t) ==
    make(reg, SysModules, t, <<>>, EmptyDict).error.kind # "UnregisteredEnvironment"

\* make(t) finds a record and resolves the entry point given
FindsEntryPoint(reg, t, entry_point) ==
    LET made == make(reg, SysModules, t, <<>>, EmptyDict)
    IN  /\ made.error.kind # "UnregisteredEnvironment"
        /\ made.events # <<>>
        /\ made.events[1] = LoadEvent(entry_point)

\* C8: the key of an id is decided by its parsed (name, version) pair.  Once
\* register(s) has succeeded, for every well-formed t: if parse(t) = parse(s),
\* register(t) is refused as a duplicate and make(t) finds the record s
\* registered; if not, t is refused or found exactly as it was before.  The id
\* with the suffix omitted and name-v0, and ids that differ in leading zeros
\* of the version, are one entry.
C8_KeyIsParsedPair ==
    [][(last'.op = "register" /\ last'.error = NoError) =>
           /\ \A t \in RawIds :
                  IF ~WellFormed(t) THEN TRUE
                  ELSE IF parse_env_id(t) = parse_env_id(last'.id)
                  THEN /\ RefusedAsDuplicate(_REGISTRY', t)
                       /\ ~RefusedAsDuplicate(_REGISTRY, t)
                       /\ FindsEntryPoint(_REGISTRY', t, last'.entry_point)
                       /\ ~Found(_REGISTRY, t)
                  ELSE /\ RefusedAsDuplicate(_REGISTRY', t)
                              <=> RefusedAsDuplicate(_REGISTRY, t)
                       /\ Found(_REGISTRY', t) <=> Found(_REGISTRY, t)
           /\ \A pair \in SameEntryPairs :
                  last'.id \in {pair[1], pair[2]} =>
                      \A t \in {pair[1], pair[2]} :
                          /\ RefusedAsDuplicate(_REGISTRY', t)
                          /\ FindsEntryPoint(_REGISTRY', t, last'.entry_point)]_vars

\* a register call written f succeeded and its record is under the key f-v0,
\* where make finds it by either spelling
C8_Witness ==
    /\ last.op = "register"
    /\ last.error = NoError
    /\ last.id = <<"f">>
    /\ DictKeys(_REGISTRY) = <<<<"f", "-", "v", "0">>>>
    /\ Found(_REGISTRY, <<"f">>)
    /\ Found(_REGISTRY, <<"f", "-", "v", "0">>)

\* C9: registered_environments() returns exactly the canonical ids of the
\* register calls that succeeded, each once, in the order in which they
\* succeeded; failed register calls and make calls add nothing and reorder
\* nothing, and the call itself leaves the registry as it is.
C9_RegistrationOrder ==
    /\ registered_environments(_REGISTRY) = succeeded
    /\ last.op = "registered_environments" => last.value = succeeded

\* the list returned holds two ids in their order of registration
C9_Witness ==
    /\ last.op = "registered_environments"
    /\ Len(last.value) = 2
    /\ last.value = succeeded

\* C10: the registry starts empty and only grows.  Every entry stays where it
\* is with the same key, entry point and stored kwargs; the registry changes
\* only in a successful register call, which adds exactly one key, the
\* canonical id of the call, and every successful register call adds one.
C10_OnlyGrows ==
    /\ _REGISTRY = <<>>
    /\ [][/\ Len(_REGISTRY') >= Len(_REGISTRY)
          /\ \A i \in 1..Len(_REGISTRY) : _REGISTRY'[i] = _REGISTRY[i]
          /\ _REGISTRY' # _REGISTRY =>
                 /\ last'.op = "register"
                 /\ last'.error = NoError
          /\ (last'.op = "register" /\ last'.error = NoError) =>
                 /\ Len(_REGISTRY') = Len(_REGISTRY) + 1
                 /\ _REGISTRY'[Len(_REGISTRY')].key = Canonical(last'.id)
                 /\ ~DictHas(_REGISTRY, Canonical(last'.id))]_vars

\* a second key was added and the entry registered first is still in place
C10_Witness ==
    /\ last.op = "register"
    /\ last.error = NoError
    /\ Len(_REGISTRY) = 2
    /\ _REGISTRY[1].key = succeeded[1]
    /\ _REGISTRY[2].key = Canonical(last.id)

\* the identifiers the specification lists as malformed
MalformedExamples ==
    {<<>>, <<"f", "o", "o", "-", "v">>, <<"f", "o", "o", "-", "v", "-", "1">>}

\* C11: the identifiers "", "foo-v" and "foo-v-1" are each rejected with the
\* malformed-identifier error by register and by make, and the rejected call
\* leaves the registry unchanged.
C11_ExamplesRejected ==
    [][(last'.op \in {"register", "make"} /\ last'.id \in MalformedExamples) =>
           /\ last'.error = MalformedIdentifier(last'.id)
           /\ _REGISTRY' = _REGISTRY]_vars

\* C11 as the code has it: "" and an id holding a character outside the
\* grammar are rejected with the malformed-identifier error by register,
\* whatever keywords it passes on, and by make, before any collaborator is
\* invoked and with the registry unchanged; "foo-v" and "foo-v-1" are never rejected as
\* malformed: make looks them up, and register stores them, as the names
\* foo-v and foo-v-1 at version 0.
C11_MalformedRejected ==
    [][last'.op \in {"register", "make"} =>
           /\ last'.id \in {<<>>, <<"f", "!">>} =>
                  /\ last'.error = MalformedIdentifier(last'.id)
                  /\ last'.events = <<>>
                  /\ _REGISTRY' = _REGISTRY
           /\ last'.id \in MalformedExamples \ {<<>>} =>
                  /\ last'.error.kind # "MalformedIdentifier"
                  /\ last'.op = "make" =>
                         \/ last'.error =
                                UnregisteredEnvironment(last'.id \o <<"-", "v", "0">>,
                                                        DictKeys(_REGISTRY))
                         \/ DictHas(_REGISTRY, last'.id \o <<"-", "v", "0">>)
                  /\ (last'.op = "register" /\ last'.error = NoError) =>
                         \A spec \in {_REGISTRY'[Len(_REGISTRY')].value} :
                             /\ spec.name = last'.id
                             /\ spec.version = 0]_vars

\* make("") was refused as malformed while the registry holds the record
\* registered as "foo-v"
C11_Witness ==
    /\ last.op = "make"
    /\ last.id = <<>>
    /\ last.error = MalformedIdentifier(<<>>)
    /\ DictHas(_REGISTRY, <<"f", "o", "o", "-", "v", "-", "v", "0">>)

\* a non-empty string of characters of the grammar
LegalName(s) == s # <<>> /\ \A i \in 1..Len(s) : IsNameChar(s[i])

\* the places where a string ends with the literal -v and one or more digits
\* after a non-empty prefix: the lengths of the prefix
SuffixCuts(s) ==
    {k \in 1..(Len(s) - 3) :
        /\ s[k + 1] = "-"
        /\ s[k + 2] = "v"
        /\ \A i \in (k + 3)..Len(s) : IsDigit(s[i])}

\* the numbers whose decimal text is compared with a suffix
WrittenVersions == FormatVersions \cup (0..11)

\* C12: on a non-empty string of grammar-legal characters, parse splits at a
\* version suffix only when the string ends with the literal -v followed by
\* one or more digits after a non-empty name: parse(name + "-v" + digits(N))
\* is (name, N), also when the name itself holds -v and digits; a string that
\* ends in -v followed by something other than digits, or by nothing, and a
\* string with no such suffix, is accepted whole as a name of version 0.
C12_ParseSplitsAtSuffix ==
    (last.op = "parse_env_id" /\ LegalName(last.id)) =>
        /\ last.value.ok
        /\ \A k \in SuffixCuts(last.id) :
               /\ last.value.name = SubSeq(last.id, 1, k)
               /\ \A n \in WrittenVersions :
                      SubSeq(last.id, k + 3, Len(last.id)) = IntToStr(n) =>
                          last.value.version = n
        /\ SuffixCuts(last.id) # {} =>
               /\ last.value.name \o <<"-", "v">> = SubSeq(last.id, 1, Len(last.value.name) + 2)
               /\ Len(last.value.name) < Len(last.id) - 2
        /\ SuffixCuts(last.id) = {} =>
               /\ last.value.name = last.id
               /\ last.value.version = 0

\* the parser was given -v1-v10 and split it into the name -v1 and version 10
C12_Witness ==
    /\ last.op = "parse_env_id"
    /\ last.id = <<"-", "v", "1", "-", "v", "1", "0">>
    /\ last.value = [ok |-> TRUE, error |-> NoError, name |-> <<"-", "v", "1">>, version |-> 10]

\* C13: for every non-empty name of grammar-legal characters, also one that
\* holds or ends with a -v<digits> fragment, and every version v >= 0,
\* parse(format(name, v)) = (name, v); and formatting that pair again gives
\* the same id, so that format(parse(.)) maps a well-formed string to an id it
\* leaves as it is.
C13_RoundTrip ==
    [][/\ (last'.op = "parse_env_id" /\ last'.args # <<>> /\ LegalName(last'.args[1])) =>
              /\ last'.id = last'.args[1] \o <<"-", "v">> \o IntToStr(last'.args[2])
              /\ last'.value =
                     [ok |-> TRUE, error |-> NoError, name |-> last'.args[1], version |-> last'.args[2]]
       /\ (/\ last.op = "parse_env_id" /\ last.args # <<>> /\ LegalName(last.args[1])
           /\ last'.op = "get_env_id") =>
              /\ last'.value = last.id
              /\ last'.args = last.args]_vars

\* the name -v1 and the version 12 came back from the id -v1-v12
C13_Witness ==
    /\ last.op = "parse_env_id"
    /\ last.args = <<<<"-", "v", "1">>, 12>>
    /\ last.id = <<"-", "v", "1", "-", "v", "1", "2">>
    /\ last.value = [ok |-> TRUE, error |-> NoError, name |-> <<"-", "v", "1">>, version |-> 12]

\* two register calls of one canonical id have both returned
BothCompleted ==
    \E i, j \in 1..Len(succeeded) : i < j /\ succeeded[i] = succeeded[j]

\* C14: when the callers hold one mutex over the whole of register, so that
\* the duplicate test and the insert of a call are not interleaved with
\* another call's, no two register calls of the same canonical id both
\* return: every call that returned has its own key and its own record, and
\* a thread is between its test and its insert only while it holds the
\* mutex.  Without the mutex such a state is reachable (C14_Witness).
C14_LockPreventsRace ==
    lock # "unused" =>
        /\ ~BothCompleted
        /\ registered_environments(_REGISTRY) = succeeded
        /\ \A t \in Threads :
               /\ calls[t].pc \in {"line103", "line107", "line108", "line147"} => lock = t
               /\ calls[t].pc = "returned" =>
                      /\ DictHas(_REGISTRY, calls[t].spec.id)
                      /\ DictGet(_REGISTRY, calls[t].spec.id) = calls[t].spec

\* without a mutex, register("f") of thread t1 and register("f-v0") of thread
\* t2 have both passed the test of line 103 and both returned; the registry
\* holds one record under f-v0, the one thread t2 stored, and the record
\* thread t1 stored is gone
C14_Witness ==
    /\ lock = "unused"
    /\ calls["t1"].pc = "returned" /\ calls["t1"].id = <<"f">>
    /\ calls["t2"].pc = "returned" /\ calls["t2"].id = <<"f", "-", "v", "0">>
    /\ calls["t1"].spec.id = calls["t2"].spec.id
    /\ BothCompleted
    /\ Len(_REGISTRY) = 1
    /\ _REGISTRY[1].value = calls["t2"].spec
    /\ _REGISTRY[1].value # calls["t1"].spec

\* the kinds of error the registry raises itself
RegistryErrorKinds ==
    {"MalformedIdentifier", "DuplicateRegistration", "VersionGapError",
     "UnregisteredEnvironment"}

\* what the import system described at SysModules does with an entry point:
\* the exception the resolver raises, "" if it gives the attribute
ResolverRaises(entry_point) ==
    CASE entry_point = <<"x", ":", "f">> -> "ModuleNotFoundError"
      [] entry_point = <<"m", ":", "q">> -> "AttributeError"
      [] entry_point \in {<<"m">>, <<"m", ":", "f", ":", "f">>, <<":", "f">>} -> "ValueError"
      [] entry_point = <<".", "m", ":", "f">> -> "TypeError"
      [] OTHER -> ""

\* what the attributes of m do when called with the positional arguments args
\* and the keywords named: the exception raised, "" if the call returns
ConstructorRaises(entry_point, args, named) ==
    CASE entry_point = <<"m", ":", "f">> ->
             IF args # <<>> THEN "TypeError" ELSE ""
      [] entry_point = <<"m", ":", "g">> ->
             IF \/ Len(args) > 2
                \/ Len(args) = 0 /\ "size" \notin named
                \/ Len(args) >= 1 /\ "size" \in named
                \/ Len(args) >= 2 /\ "seed" \in named
             THEN "TypeError" ELSE ""
      [] entry_point = <<"m", ":", "h">> ->
             IF args # <<>> THEN "TypeError" ELSE "RuntimeError"
      [] entry_point = <<"m", ":", "E">> ->
             IF \/ Len(args) > 1
                \/ Len(args) = 0 /\ "size" \notin named
                \/ Len(args) = 1 /\ "size" \in named
                \/ ~(named \subseteq {"size", "seed"})
             THEN "TypeError" ELSE ""
      [] entry_point = <<"m", ":", "n">> -> "TypeError"
      [] OTHER -> ""

\* C15: in a make call of a registered id that passes no keyword named id
\* (such a call raises before make is entered), if the resolver cannot
\* resolve the record's entry point (no such module, no such attribute, a
\* reference that is no module:attribute pair), make fails with the
\* resolver's error itself
\* after one resolution and no constructor call; if the resolved object
\* raises when called (it is no callable, the arguments do not fit its
\* parameters, its body raises), make fails with that error itself after one
\* resolution and one call.  In both cases no environment is returned and
\* the registry is unchanged; the error is never one of the registry's own
\* kinds, and a call that raises nothing returns an environment.
C15_ErrorsPassThrough ==
    [][(last'.op = "make" /\ "id" \notin DOMAIN last'.kwargs) =>
           \A env_id \in {Canonical(last'.id)} :
               (WellFormed(last'.id) /\ DictHas(_REGISTRY, env_id)) =>
                   \A env_spec \in
                          {_REGISTRY[i].value :
                              i \in {j \in 1..Len(_REGISTRY) : _REGISTRY[j].key = env_id}} :
                       \A resolver \in {ResolverRaises(env_spec.entry_point)},
                          constructor \in
                              {ConstructorRaises(env_spec.entry_point, last'.args,
                                                 (DOMAIN env_spec.kwargs)
                                                     \cup (DOMAIN last'.kwargs))} :
                           /\ resolver # "" =>
                                  /\ last'.error =
                                         [kind |-> resolver, arg |-> <<>>, listed |-> <<>>]
                                  /\ last'.events = <<LoadEvent(env_spec.entry_point)>>
                           /\ (resolver = "" /\ constructor # "") =>
                                  /\ last'.error =
                                         [kind |-> constructor, arg |-> <<>>, listed |-> <<>>]
                                  /\ Len(last'.events) = 2
                                  /\ last'.events[1] = LoadEvent(env_spec.entry_point)
                                  /\ last'.events[2].what = "call"
                                  /\ last'.events[2].name = env_spec.entry_point
                           /\ (resolver = "" /\ constructor = "") =>
                                  /\ last'.error = NoError
                                  /\ last'.env # NoEnv
                           /\ last'.error.kind \notin RegistryErrorKinds
                           /\ last'.error # NoError =>
                                  /\ last'.env = NoEnv
                                  /\ _REGISTRY' = _REGISTRY]_vars

\* make of a registered id failed with the RuntimeError raised in the body of
\* the constructor m:h, after one resolution and one call, while the other
\* record of the registry names the attribute q that m has not
C15_Witness ==
    /\ last.op = "make"
    /\ last.error = [kind |-> "RuntimeError", arg |-> <<>>, listed |-> <<>>]
    /\ last.events = <<LoadEvent(<<"m", ":", "h">>),
                       CallEvent(<<"m", ":", "h">>, <<>>, [size |-> 8, seed |-> 1, extra |-> 2])>>
    /\ last.env = NoEnv
    /\ Len(_REGISTRY) = 2
    /\ \E i \in 1..2 : _REGISTRY[i].value.entry_point = <<"m", ":", "q">>

\* C16: make parses the id, looks the record up, resolves the entry point and
\* invokes the constructor, in this order, and stops at the first failure: for
\* a malformed id and for an unregistered id no collaborator is invoked; when
\* resolution fails the constructor is not invoked; otherwise the resolver is
\* invoked once, with the entry point of the record registered under the
\* canonical id, and then the constructor once, and a make that returns has
\* done exactly that.
C16_MakeStepOrder ==
    [][last'.op = "make" =>
           \A parsed \in {parse_env_id(last'.id)} :
               IF ~parsed.ok
               THEN /\ last'.error.kind = "MalformedIdentifier"
                    /\ last'.events = <<>>
               ELSE \A records \in
                        {{_REGISTRY[i].value :
                             i \in {j \in 1..Len(_REGISTRY) :
                                       _REGISTRY[j].key = parsed.name \o <<"-", "v">>
                                                              \o IntToStr(parsed.version)}}} :
                        IF records = {}
                        THEN /\ last'.error.kind = "UnregisteredEnvironment"
                             /\ last'.events = <<>>
                        ELSE \E env_spec \in records :
                                 /\ Len(last'.events) \in {1, 2}
                                 /\ last'.events[1] = LoadEvent(env_spec.entry_point)
                                 /\ Len(last'.events) = 1 <=>
                                        last'.error.kind = "ModuleNotFoundError"
                                 /\ Len(last'.events) = 2 =>
                                        /\ last'.events[2].what = "call"
                                        /\ last'.events[2].name = env_spec.entry_point
                                 /\ last'.error = NoError =>
                                        /\ Len(last'.events) = 2
                                        /\ last'.env # NoEnv]_vars

\* make returned an environment after one resolution of m:f, the entry point
\* of the second record, and one constructor call, while the first record has
\* another entry point
C16_Witness ==
    /\ last.op = "make"
    /\ last.error = NoError
    /\ Len(last.events) = 2
    /\ last.events[1] = LoadEvent(<<"m", ":", "f">>)
    /\ last.events[2].what = "call"
    /\ Len(_REGISTRY) = 2
    /\ _REGISTRY[1].value.entry_point = <<"x", ":", "f">>
    /\ _REGISTRY[2].key = Canonical(last.id)

\* C17: after any sequence of register and make calls, every name that has a
\* record of any version has its version 0 in the registry, registered no
\* later than that record: the key name-v0 is at the record's position or
\* before it, and holds the record of that name at version 0.
C17_VersionZeroFirst ==
    \A i \in 1..Len(_REGISTRY) :
        \E j \in 1..i :
            /\ _REGISTRY[j].key = _REGISTRY[i].value.name \o <<"-", "v", "0">>
            /\ _REGISTRY[j].value.name = _REGISTRY[i].value.name
            /\ _REGISTRY[j].value.version = 0

\* a version above 0 is registered, after version 0 of its name
C17_Witness ==
    /\ Len(_REGISTRY) = 2
    /\ _REGISTRY[2].value.version > 0
    /\ _REGISTRY[1].value.version = 0
    /\ _REGISTRY[1].value.name = _REGISTRY[2].value.name
    /\ last.op = "make"

\* C18: every key k of the registry maps to a record that describes k: its id
\* is k, its name and version are what k parses to, and k is its name and
\* version written as name-vN; so the record a register call stored, whose
\* name the version check compared, has the name and version the caller's raw
\* id parses to.
C18_RecordDescribesKey ==
    /\ \A i \in 1..Len(_REGISTRY) :
           \A r \in {_REGISTRY[i].value} :
               /\ r.id = _REGISTRY[i].key
               /\ parse_env_id(_REGISTRY[i].key) =
                      [ok |-> TRUE, error |-> NoError, name |-> r.name, version |-> r.version]
               /\ _REGISTRY[i].key = r.name \o <<"-", "v">> \o IntToStr(r.version)
    /\ (last.op = "register" /\ last.error = NoError) =>
           \A r \in {_REGISTRY[Len(_REGISTRY)].value} :
               parse_env_id(last.id) = [ok |-> TRUE, error |-> NoError, name |-> r.name, version |-> r.version]

\* register("f-v01") stored a record under f-v1 whose id is f-v1, name f and
\* version 1
C18_Witness ==
    /\ last.op = "register"
    /\ last.error = NoError
    /\ last.id = <<"f", "-", "v", "0", "1">>
    /\ _REGISTRY[Len(_REGISTRY)] =
           [key |-> <<"f", "-", "v", "1">>,
            value |-> [id |-> <<"f", "-", "v", "1">>,
                       entry_point |-> last.entry_point,
                       kwargs |-> IF "kwargs" \in DOMAIN last.kw
                                  THEN last.kw.kwargs ELSE EmptyDict,
                       name |-> <<"f">>,
                       version |-> 1]]

====
